---- MODULE Spec2Model ----
(***************************************************************************)
(* fink_broker/hbaseUtils.py: the HBase catalog helpers.                   *)
(*                                                                         *)
(* Each function of the module is a synchronous call on in-memory values.  *)
(* A behaviour is one call: the arguments are drawn in the initial state   *)
(* (pc = "call"), the action of the function computes what it returns or   *)
(* the exception it raises (pc = "done").                                  *)
(***************************************************************************)
EXTENDS Integers, Sequences, FiniteSets, TLC

VARIABLES pc, args, ret

vars == <<pc, args, ret>>

(***************************************************************************)
(* Bounds of the explored inputs.                                          *)
(***************************************************************************)
MaxLen == 3    \* fields of a schema (catalog compiler, schema row)
MaxCols == 5   \* columns of the DataFrame given to attach_rowkey
MaxSel == 3    \* selectors over the three lists cols_i, cols_d, cols_b

\* Sequences over S of length 0..n.
SeqUpTo(S, n) == UNION {[1..k -> S] : k \in 0..n}

(***************************************************************************)
(* Python values.                                                          *)
(***************************************************************************)
\* The value of a StructField.jsonValue()["type"]: a str for an atomic type
\* ("string", "double", "timestamp", ...), a dict for array/struct/map.
StrType(n) == [kind |-> "str", name |-> n]
DictType(n) == [kind |-> "dict", name |-> n]

\* type(v) of such a value.
PyType(v) == IF v.kind = "dict" THEN "<class 'dict'>" ELSE "<class 'str'>"

\* '{}'.format(v): a str is copied, a dict is written as its repr.
PyFormat(v) == IF v.kind = "str" THEN v.name ELSE "{'type': '" \o v.name \o "'}"

\* list.index(x) (0-based): the first position whose element equals x.
\* x is always an element of the list where the code calls it.
ListIndex(l, x) == (CHOOSE i \in 1..Len(l) :
                       /\ l[i] = x
                       /\ \A j \in 1..(i - 1) : l[j] # x) - 1

\* What a call returned (status "ok") or the exception it raised.
None == <<>>
Return(v) == [status |-> "ok", value |-> v]
Raise(e) == [status |-> e, value |-> None]
NotCalled == [status |-> "none", value |-> None]

(***************************************************************************)
(* Inputs of the catalog compiler and of the schema row builder.           *)
(***************************************************************************)
Names == {"rk", "x"}
TypeValues == {StrType("string"), StrType("timestamp"), DictType("array")}
Tags == {"i", "d", "b"}

\* schema.jsonValue()["fields"]: one dict per StructField; the metadata of
\* every field is {}.  Two columns of a DataFrame may have the same name.
Fields == [name : Names, type : TypeValues, nullable : BOOLEAN]
Schemas == SeqUpTo(Fields, MaxLen)

\* cf: a dict from column names to family tags.
FamilyMaps == UNION {[D -> Tags] : D \in SUBSET Names}

(***************************************************************************)
(* construct_hbase_catalog_from_flatten_schema                             *)
(***************************************************************************)
\* Lines 234-237.
EntrySep(schema_columns, column) ==
    IF ListIndex(schema_columns, column) # Len(schema_columns) - 1
    THEN "," ELSE ""

\* Lines 240-241: a dict type becomes "string".
CoerceArray(column) ==
    IF PyType(column.type) = "<class 'dict'>"
    THEN [column EXCEPT !.type = StrType("string")]
    ELSE column

\* Variant: the declared type name is compared instead of the type object.
CoerceTimestampByName(column) ==
    IF column.type.kind = "str" /\ column.type.name = "timestamp"
    THEN [column EXCEPT !.type = StrType("string")]
    ELSE column

\* Lines 243-244: the comparison is between the type object and a str.
CoerceTimestamp(column) ==
    IF PyType(column.type) = "timestamp"
    THEN [column EXCEPT !.type = StrType("string")]
    ELSE column

\* One column entry of the descriptor text, with the quote character q:
\*   q key q: {q cf q: q family q, q col q: q col q, q type q: q type q} sep
Entry(key, family, qualifier, type, sep, q) ==
    [key |-> key, cf |-> family, col |-> qualifier, type |-> type,
     sep |-> sep, q |-> q]

\* Variant: the family mapping is consulted for every column.
NeedsFamilyAlways(column, rowkeyname) == TRUE

\* Lines 246-259: the entry of a column; cf[...] is only evaluated in the
\* else branch.
NeedsFamily(column, rowkeyname) == column.name # rowkeyname

\* Variant: the row-key branch emits the qualifier under the family "i".
ColumnEntryNoReserved(column, rowkeyname, cf, sep) ==
    IF column.name = rowkeyname
    THEN Entry(column.name, "i", column.name, PyFormat(column.type), sep, "'")
    ELSE Entry(column.name, cf[column.name], column.name, PyFormat(column.type), sep, "'")

ColumnEntry(column, rowkeyname, cf, sep) ==
    IF ~NeedsFamily(column, rowkeyname)
    THEN Entry(column.name, "rowkey", column.name, PyFormat(column.type), sep, "'")
    ELSE Entry(column.name, cf[column.name], column.name, PyFormat(column.type), sep, "'")

\* Variant: each entry is put in front of the text built so far.
RECURSIVE CatalogLoopPrepend(_, _, _, _, _)
CatalogLoopPrepend(schema_columns, k, entries, rowkeyname, cf) ==
    IF k > Len(schema_columns)
    THEN Return(entries)
    ELSE LET sep == IF ListIndex(schema_columns, schema_columns[k]) # Len(schema_columns) - 1
                    THEN "," ELSE ""
             column == schema_columns[k]
             type == IF column.type.kind = "dict" THEN "string" ELSE column.type.name
             family == IF column.name = rowkeyname THEN "rowkey" ELSE cf[column.name]
         IN  IF column.name # rowkeyname /\ column.name \notin DOMAIN cf
             THEN Raise("KeyError")
             ELSE CatalogLoopPrepend(
                      [schema_columns EXCEPT ![k].type = StrType(type)], k + 1,
                      <<[key |-> column.name, cf |-> family, col |-> column.name,
                         type |-> type, sep |-> sep, q |-> "'"]>> \o entries,
                      rowkeyname, cf)

\* Lines 232-259: the loop from position k on.  schema_columns is the list
\* the loop iterates over; the coercions assign into its dicts.
RECURSIVE CatalogLoop(_, _, _, _, _)
CatalogLoop(schema_columns, k, entries, rowkeyname, cf) ==
    IF k > Len(schema_columns)
    THEN Return(entries)
    ELSE LET sep == EntrySep(schema_columns, schema_columns[k])
             column == CoerceTimestamp(CoerceArray(schema_columns[k]))
             mutated == [schema_columns EXCEPT ![k] = column]
         IN  IF NeedsFamily(column, rowkeyname) /\ column.name \notin DOMAIN cf
             THEN Raise("KeyError")
             ELSE CatalogLoop(mutated, k + 1,
                              Append(entries, ColumnEntry(column, rowkeyname, cf, sep)),
                              rowkeyname, cf)

\* Line 265: catalog.replace("'", "\"") on the quotes of the template.
ReplaceQuotes(entries) ==
    [k \in 1..Len(entries) |->
        [entries[k] EXCEPT !.q = IF @ = "'" THEN "\"" ELSE @]]

\* Lines 220-265.
construct_hbase_catalog_from_flatten_schema(schema, catalogname, rowkeyname, cf) ==
    LET r == CatalogLoop(schema, 1, <<>>, rowkeyname, cf)
    IN  IF r.status # "ok"
        THEN r
        ELSE Return([table |-> [namespace |-> "default", name |-> catalogname],
                     rowkey |-> rowkeyname,
                     columns |-> ReplaceQuotes(r.value)])

CatalogArgs ==
    [fn : {"construct_hbase_catalog_from_flatten_schema"},
     schema : Schemas, catalogname : {"mycatalogname"},
     rowkeyname : Names, cf : FamilyMaps]

InitCatalog ==
    /\ pc = "call"
    /\ args \in CatalogArgs
    /\ ret = NotCalled

CallCatalog ==
    /\ pc = "call"
    /\ args.fn = "construct_hbase_catalog_from_flatten_schema"
    /\ ret' = construct_hbase_catalog_from_flatten_schema(
                  args.schema, args.catalogname, args.rowkeyname, args.cf)
    /\ pc' = "done"
    /\ UNCHANGED args

NextCatalog == CallCatalog

SpecCatalog == InitCatalog /\ [][NextCatalog]_vars

(***************************************************************************)
(* retrieve_row_key_cols, attach_rowkey                                    *)
(***************************************************************************)
\* str.join: the strings of l with sep between consecutive ones.
RECURSIVE StrJoin(_, _)
StrJoin(sep, l) ==
    IF Len(l) = 0 THEN ""
    ELSE IF Len(l) = 1 THEN l[1]
    ELSE l[1] \o sep \o StrJoin(sep, Tail(l))

\* Lines 116-122.
retrieve_row_key_cols == <<"objectId", "jd", "ra", "dec">>

\* Variant: the name is joined with the separator given by the caller.
RowKeyNameWithSep(row_key_cols, sep) == StrJoin(sep, row_key_cols)

\* Line 161: the name is joined with the literal '_', whatever sep is.
RowKeyName(row_key_cols, sep) == StrJoin("_", row_key_cols)

\* The DataFrame given to attach_rowkey: its columns in order, and one row;
\* the cell of a column is an integer.
ColNames == {"objectId", "jd", "ra", "dec", "candid", "objectId_jd_ra_dec"}
Cell(name) ==
    CASE name = "objectId" -> 1
      [] name = "jd" -> 2
      [] name = "ra" -> 3
      [] name = "dec" -> 4
      [] name = "candid" -> 5
      [] OTHER -> 0
Column(name) == [name |-> name, cell |-> [kind |-> "int", v |-> Cell(name)]]
Separators == {"_", "-", ":"}

\* Column.astype('string') on an integer cell: its decimal digits.
Digits == <<"0", "1", "2", "3", "4", "5", "6", "7", "8", "9">>
RECURSIVE Decimal(_)
Decimal(n) == IF n < 10 THEN Digits[n + 1] ELSE Decimal(n \div 10) \o Digits[(n % 10) + 1]
AsTypeString(cell) == IF cell.kind = "str" THEN cell.v ELSE Decimal(cell.v)

\* The positions of df whose column is named name.
Named(df, name) == {k \in 1..Len(df) : df[k].name = name}

\* col(name) resolves against df when exactly one column has that name.
Resolves(df, name) == Cardinality(Named(df, name)) = 1
ColValue(df, name) == df[CHOOSE k \in Named(df, name) : TRUE].cell

\* DataFrame.withColumn: the columns of that name are replaced in place; the
\* column is appended when there is none.
WithColumn(df, name, cell) ==
    IF Named(df, name) # {}
    THEN [k \in 1..Len(df) |->
            IF df[k].name = name THEN [name |-> name, cell |-> cell] ELSE df[k]]
    ELSE Append(df, [name |-> name, cell |-> cell])

\* Line 167: concat_ws(sep, *to_concat) on the row.
ConcatWs(sep, df, row_key_cols) ==
    [kind |-> "str",
     v |-> StrJoin(sep, [k \in 1..Len(row_key_cols) |->
                            AsTypeString(ColValue(df, row_key_cols[k]))])]

\* Lines 160-169.
attach_rowkey(df, sep) ==
    LET row_key_cols == retrieve_row_key_cols
        row_key_name == RowKeyName(row_key_cols, sep)
    IN  IF \E k \in 1..Len(row_key_cols) : ~Resolves(df, row_key_cols[k])
        THEN Raise("AnalysisException")
        ELSE Return([df |-> WithColumn(df, row_key_name,
                                       ConcatWs(sep, df, row_key_cols)),
                     row_key_name |-> row_key_name])

RowKeyArgs ==
    [fn : {"attach_rowkey"},
     df : {[k \in DOMAIN s |-> Column(s[k])] : s \in SeqUpTo(ColNames, MaxCols)},
     sep : Separators]

InitRowKey ==
    /\ pc = "call"
    /\ args \in RowKeyArgs
    /\ ret = NotCalled

CallRowKey ==
    /\ pc = "call"
    /\ args.fn = "attach_rowkey"
    /\ ret' = attach_rowkey(args.df, args.sep)
    /\ pc' = "done"
    /\ UNCHANGED args

NextRowKey == CallRowKey

SpecRowKey == InitRowKey /\ [][NextRowKey]_vars

(***************************************************************************)
(* Properties of the row-key synthesizer.                                  *)
(***************************************************************************)
RowKeyReturned ==
    /\ pc = "done"
    /\ args.fn = "attach_rowkey"
    /\ ret.status = "ok"

\* C5 (as stated): the returned row-key name, which is the name of the column
\* added to the record set, is objectId, jd, ra, dec joined by the separator
\* passed to attach_rowkey.
C5_NameJoinedBySep ==
    RowKeyReturned =>
        /\ ret.value.row_key_name =
              "objectId" \o args.sep \o "jd" \o args.sep \o "ra" \o args.sep \o "dec"
        /\ Named(ret.value.df, ret.value.row_key_name) # {}

\* C5 (amended): for every separator and every order of the columns, the
\* returned row-key name, which is the name of the column added to the record
\* set, is objectId_jd_ra_dec: the names are joined by "_"; the separator
\* passed by the caller only joins the values of the new column.
C5_NameJoinedByUnderscore ==
    RowKeyReturned =>
        /\ ret.value.row_key_name = "objectId_jd_ra_dec"
        /\ Named(ret.value.df, "objectId_jd_ra_dec") # {}
        /\ \A k \in Named(ret.value.df, "objectId_jd_ra_dec") :
              ret.value.df[k].cell.v =
                  "1" \o args.sep \o "2" \o args.sep \o "3" \o args.sep \o "4"

C5_Witness ==
    /\ RowKeyReturned
    /\ args.sep = "-"
    /\ Len(args.df) = 5
    /\ args.df[1].name = "dec"
    /\ args.df[2].name = "candid"
    /\ Named(args.df, "objectId_jd_ra_dec") = {}
    /\ ret.value.df[6].name = "objectId_jd_ra_dec"
    /\ ret.value.df[6].cell.v = "1-2-3-4"

(***************************************************************************)
(* assign_column_family_names                                              *)
(***************************************************************************)
\* A DataFrame of the raw science database: its top-level columns in order;
\* a struct column has the names of its fields as children.
Atomic(name) == [name |-> name, children |-> <<>>]
Struct(name, children) == [name |-> name, children |-> children]

DataFrames ==
    { <<Atomic("objectId"), Struct("candidate", <<"jd", "ra">>),
        Atomic("cdsxmatch"), Struct("cutoutScience", <<"stampData">>)>>,
      <<Atomic("objectId"), Struct("candidate", <<"jd", "ra">>),
        Struct("cutoutScience", <<"stampData">>)>>,
      <<Atomic("objectId"), Atomic("jd"), Struct("candidate", <<"jd", "ra">>)>> }

\* The selectors of load_science_portal_column_names (lines 50-68): a column
\* name, 'name.*', and col('name.field').alias(alias).
SelName(n) == [kind |-> "name", name |-> n, field |-> "", alias |-> ""]
SelStar(n) == [kind |-> "star", name |-> n, field |-> "", alias |-> ""]
SelAlias(n, f, a) == [kind |-> "alias", name |-> n, field |-> f, alias |-> a]

Selectors ==
    { SelName("objectId"), SelName("cdsxmatch"), SelName("jd"),
      SelStar("candidate"),
      SelAlias("cutoutScience", "stampData", "cutoutScience") }

\* The elements of the sequence l.
Range(l) == {l[k] : k \in 1..Len(l)}

\* The top-level columns of df named n.
TopLevel(df, n) == {k \in 1..Len(df) : df[k].name = n}

\* Whether the analyzer resolves the selector against df.
SelResolves(df, sel) ==
    /\ Cardinality(TopLevel(df, sel.name)) = 1
    /\ LET c == df[CHOOSE k \in TopLevel(df, sel.name) : TRUE]
       IN  CASE sel.kind = "name" -> TRUE
             [] sel.kind = "star" -> Len(c.children) > 0
             [] sel.kind = "alias" -> sel.field \in Range(c.children)

\* The names of the columns a resolved selector produces.
SelColumns(df, sel) ==
    LET c == df[CHOOSE k \in TopLevel(df, sel.name) : TRUE]
    IN  CASE sel.kind = "name" -> <<sel.name>>
          [] sel.kind = "star" -> c.children
          [] sel.kind = "alias" -> <<sel.alias>>

RECURSIVE SelectColumns(_, _)
SelectColumns(df, cols) ==
    IF Len(cols) = 0 THEN <<>>
    ELSE SelColumns(df, cols[1]) \o SelectColumns(df, Tail(cols))

\* Variant: a selector that does not resolve is left out of the selection.
RECURSIVE SelectResolvable(_, _)
SelectResolvable(df, cols) ==
    IF Len(cols) = 0 THEN Return(<<>>)
    ELSE LET rest == SelectResolvable(df, Tail(cols)).value
         IN  IF SelResolves(df, cols[1])
             THEN Return(SelColumns(df, cols[1]) \o rest)
             ELSE Return(rest)

\* df.select(cols).columns: the analysis fails when a selector of the list
\* does not resolve against df.
Select(df, cols) ==
    IF \E k \in 1..Len(cols) : ~SelResolves(df, cols[k])
    THEN Raise("AnalysisException")
    ELSE Return(SelectColumns(df, cols))

\* {i: tag for i in columns}
DictOf(columns, tag) == [c \in Range(columns) |-> tag]

\* Variant: an entry that is already in the dict is kept.
DictUpdateKeep(d, e) ==
    [c \in DOMAIN d \cup DOMAIN e |-> IF c \in DOMAIN d THEN d[c] ELSE e[c]]

\* dict.update: the entries of e are added to d and overwrite those of d.
DictUpdate(d, e) ==
    [c \in DOMAIN d \cup DOMAIN e |-> IF c \in DOMAIN e THEN e[c] ELSE d[c]]

\* Lines 97-101: the three statements in order; the first selection that
\* fails ends the call.
assign_column_family_names(df, cols_i, cols_d, cols_b) ==
    LET si == Select(df, cols_i)
        sd == Select(df, cols_d)
        sb == Select(df, cols_b)
    IN  IF si.status # "ok" THEN si
        ELSE IF sd.status # "ok" THEN sd
        ELSE IF sb.status # "ok" THEN sb
        ELSE Return(DictUpdate(DictUpdate(DictOf(si.value, "i"),
                                          DictOf(sd.value, "d")),
                               DictOf(sb.value, "b")))

\* The three lists hold at most MaxSel selectors together.
FamilyArgs ==
    UNION { [fn : {"assign_column_family_names"}, df : DataFrames,
             cols_i : [1..ni -> Selectors],
             cols_d : [1..nd -> Selectors],
             cols_b : [1..nb -> Selectors]] :
              <<ni, nd, nb>> \in { t \in (0..MaxSel) \X (0..MaxSel) \X (0..MaxSel) :
                                     t[1] + t[2] + t[3] <= MaxSel } }

InitFamily ==
    /\ pc = "call"
    /\ args \in FamilyArgs
    /\ ret = NotCalled

CallFamily ==
    /\ pc = "call"
    /\ args.fn = "assign_column_family_names"
    /\ ret' = assign_column_family_names(args.df, args.cols_i, args.cols_d, args.cols_b)
    /\ pc' = "done"
    /\ UNCHANGED args

NextFamily == CallFamily

SpecFamily == InitFamily /\ [][NextFamily]_vars

(***************************************************************************)
(* Properties of the column-family assigner.                               *)
(***************************************************************************)
FamilyDone == pc = "done" /\ args.fn = "assign_column_family_names"
FamilyReturned == FamilyDone /\ ret.status = "ok"

\* The column names the selectors of a list resolve to.
ResolvedBy(cols) ==
    UNION {Range(SelColumns(args.df, cols[k])) :
             k \in {j \in 1..Len(cols) : SelResolves(args.df, cols[j])}}

AllSelectors == Range(args.cols_i) \cup Range(args.cols_d) \cup Range(args.cols_b)

\* C6: the returned mapping has exactly the resolved column names as keys; a
\* name resolved by the b list has tag "b", otherwise one resolved by the d
\* list has tag "d", otherwise it has tag "i".
C6_LastListWins ==
    FamilyReturned =>
        /\ DOMAIN ret.value =
              ResolvedBy(args.cols_i) \cup ResolvedBy(args.cols_d)
                  \cup ResolvedBy(args.cols_b)
        /\ \A c \in DOMAIN ret.value :
              ret.value[c] = IF c \in ResolvedBy(args.cols_b) THEN "b"
                             ELSE IF c \in ResolvedBy(args.cols_d) THEN "d"
                             ELSE "i"

C6_Witness ==
    /\ FamilyReturned
    /\ "jd" \in ResolvedBy(args.cols_i) \cap ResolvedBy(args.cols_d)
    /\ "jd" \notin ResolvedBy(args.cols_b)
    /\ ret.value["jd"] = "d"
    /\ "ra" \in DOMAIN ret.value
    /\ ret.value["ra"] = "i"

\* C9 (as stated): when a selector of one of the lists does not resolve, the
\* call raises no error and returns a mapping with the columns of every
\* resolvable selector.
C9_UnresolvedSelectorIgnored ==
    (FamilyDone /\ \E sel \in AllSelectors : ~SelResolves(args.df, sel)) =>
        /\ ret.status = "ok"
        /\ \A sel \in AllSelectors :
              SelResolves(args.df, sel) =>
                  Range(SelColumns(args.df, sel)) \subseteq DOMAIN ret.value

\* C9 (amended): the call raises the analysis error of the selection and
\* returns no mapping when a selector of one of the three lists does not
\* resolve to an existing column; it returns a mapping, with the columns of
\* every selector, when all of them resolve.
C9_UnresolvedSelectorRaises ==
    FamilyDone =>
        IF \E sel \in AllSelectors : ~SelResolves(args.df, sel)
        THEN ret.status = "AnalysisException" /\ ret.value = None
        ELSE /\ ret.status = "ok"
             /\ \A sel \in AllSelectors :
                   Range(SelColumns(args.df, sel)) \subseteq DOMAIN ret.value

C9_Witness ==
    /\ FamilyDone
    /\ ret.status = "AnalysisException"
    /\ args.cols_i = <<SelName("objectId"), SelStar("candidate")>>
    /\ args.cols_d = <<SelName("cdsxmatch")>>
    /\ SelResolves(args.df, SelName("objectId"))
    /\ ~SelResolves(args.df, SelName("cdsxmatch"))

(***************************************************************************)
(* construct_schema_row                                                    *)
(***************************************************************************)
\* The DataFrame is flattened: the declared types are atomic.
AtomicTypes == {StrType("string"), StrType("double"), StrType("long")}
RowFields == [name : Names, type : AtomicTypes, nullable : BOOLEAN]
Versions == {"schema_v0", "string"}

\* Variant: the types are collected from the last column to the first.
RECURSIVE SchemaTypesReversed(_)
SchemaTypesReversed(schema) ==
    IF Len(schema) = 0 THEN <<>>
    ELSE Append(SchemaTypesReversed(Tail(schema)), schema[1].type)

\* Line 313: the declared type of each field, in the order of the schema.
SchemaTypes(schema) == [k \in 1..Len(schema) |-> schema[k].type]

\* df.columns
ColumnsOf(schema) == [k \in 1..Len(schema) |-> schema[k].name]

\* np.where(np.array(columns) == name)[0]: the 0-based positions, ascending.
RECURSIVE NpWhere(_, _, _)
NpWhere(columns, name, k) ==
    IF k > Len(columns) THEN <<>>
    ELSE (IF columns[k] = name THEN <<k - 1>> ELSE <<>>)
             \o NpWhere(columns, name, k + 1)

\* Variant: a key column that is not found leaves the types as they are.
SetVersionIfFound(data, found, version) ==
    IF Len(found) = 0
    THEN Return(data)
    ELSE Return([data EXCEPT ![found[1] + 1] = StrType(version)])

\* Lines 315-316: [0][0] of an empty result raises IndexError.
SetVersion(data, found, version) ==
    IF Len(found) = 0
    THEN Raise("IndexError")
    ELSE Return([data EXCEPT ![found[1] + 1] = StrType(version)])

\* Lines 313-321: one row, under the columns of df.
construct_schema_row(schema, rowkeyname, version) ==
    LET data == SetVersion(SchemaTypes(schema),
                           NpWhere(ColumnsOf(schema), rowkeyname, 1), version)
    IN  IF data.status # "ok"
        THEN data
        ELSE Return([columns |-> ColumnsOf(schema), rows |-> <<data.value>>])

SchemaRowArgs ==
    [fn : {"construct_schema_row"}, schema : SeqUpTo(RowFields, MaxLen),
     rowkeyname : Names, version : Versions]

InitSchemaRow ==
    /\ pc = "call"
    /\ args \in SchemaRowArgs
    /\ ret = NotCalled

CallSchemaRow ==
    /\ pc = "call"
    /\ args.fn = "construct_schema_row"
    /\ ret' = construct_schema_row(args.schema, args.rowkeyname, args.version)
    /\ pc' = "done"
    /\ UNCHANGED args

NextSchemaRow == CallSchemaRow

SpecSchemaRow == InitSchemaRow /\ [][NextSchemaRow]_vars

(***************************************************************************)
(* Properties of the schema-snapshot builder.                              *)
(***************************************************************************)
SchemaRowDone == pc = "done" /\ args.fn = "construct_schema_row"

\* The key column: the first column of the schema named as the key.
HasKeyColumn == \E k \in 1..Len(args.schema) : args.schema[k].name = args.rowkeyname
KeyColumn ==
    CHOOSE k \in 1..Len(args.schema) :
        /\ args.schema[k].name = args.rowkeyname
        /\ \A j \in 1..(k - 1) : args.schema[j].name # args.rowkeyname

\* C7: for a flat schema with the key column, the call returns one record
\* under the column names of the schema in their order; its value at each
\* position is the declared type name of that column, except at the position
\* of the key column (the first column of that name), where it is the
\* version label.
C7_TypesWithVersionAtKey ==
    (SchemaRowDone /\ HasKeyColumn) =>
        /\ ret.status = "ok"
        /\ Len(ret.value.rows) = 1
        /\ Len(ret.value.columns) = Len(args.schema)
        /\ Len(ret.value.rows[1]) = Len(args.schema)
        /\ \A k \in 1..Len(args.schema) :
              /\ ret.value.columns[k] = args.schema[k].name
              /\ ret.value.rows[1][k].kind = "str"
              /\ ret.value.rows[1][k].name =
                    IF k = KeyColumn THEN args.version
                    ELSE args.schema[k].type.name

C7_Witness ==
    /\ SchemaRowDone
    /\ ret.status = "ok"
    /\ args.version = "schema_v0"
    /\ Len(args.schema) = 3
    /\ KeyColumn = 3
    /\ args.schema[1].type.name = "string"
    /\ args.schema[2].type.name = "double"
    /\ ret.value.rows[1][1].name = "string"
    /\ ret.value.rows[1][2].name = "double"
    /\ ret.value.rows[1][3].name = "schema_v0"

\* C8: when no column of the schema is named as the key, the call raises the
\* not-found error and returns no record; a returned record carries the
\* version label at some position.
C8_MissingKeyRaises ==
    SchemaRowDone =>
        /\ ~HasKeyColumn => (ret.status = "IndexError" /\ ret.value = None)
        /\ ret.status = "ok" =>
              \E k \in 1..Len(ret.value.rows[1]) :
                  ret.value.rows[1][k].name = args.version

C8_Witness ==
    /\ SchemaRowDone
    /\ ~HasKeyColumn
    /\ Len(args.schema) = 2
    /\ ret.status = "IndexError"

(***************************************************************************)
(* Properties of the catalog compiler.                                     *)
(***************************************************************************)
CatalogReturned ==
    /\ pc = "done"
    /\ args.fn = "construct_hbase_catalog_from_flatten_schema"
    /\ ret.status = "ok"

\* The positions of the schema whose field is named as the row key.
KeyPositions == {k \in 1..Len(args.schema) : args.schema[k].name = args.rowkeyname}

\* The positions of the returned descriptor whose entry has family "rowkey".
RowkeyEntries == {k \in 1..Len(ret.value.columns) : ret.value.columns[k].cf = "rowkey"}

\* C1: in every returned descriptor, every column entry but the last is
\* followed by a comma and the last entry is followed by none, also when two
\* fields of the schema are equal descriptors.
C1_CommaAfterAllButLast ==
    CatalogReturned =>
        \A k \in 1..Len(ret.value.columns) :
            ret.value.columns[k].sep =
                IF k < Len(ret.value.columns) THEN "," ELSE ""

\* C2 (as stated): every returned descriptor has exactly one entry with
\* family "rowkey", and its qualifier is the row-key name.
C2_ExactlyOneRowkeyEntry ==
    CatalogReturned =>
        /\ Cardinality(RowkeyEntries) = 1
        /\ \A k \in RowkeyEntries : ret.value.columns[k].col = args.rowkeyname

\* C2 (amended): with family tags among i, d, b, the entries with family
\* "rowkey" of a returned descriptor are exactly the entries of the schema
\* fields named as the row key, each with the row-key name as qualifier; so
\* there are as many of them as such fields: one exactly when the schema has
\* one field of that name, none when it has none.
C2_RowkeyEntriesAreKeyFields ==
    CatalogReturned =>
        /\ RowkeyEntries = KeyPositions
        /\ \A k \in RowkeyEntries : ret.value.columns[k].col = args.rowkeyname
        /\ (Cardinality(RowkeyEntries) = 1) = (Cardinality(KeyPositions) = 1)

C2_Witness ==
    /\ CatalogReturned
    /\ Len(args.schema) = 3
    /\ Cardinality(KeyPositions) = 1
    /\ Cardinality(RowkeyEntries) = 1

\* C3: a returned descriptor has one entry per schema field, and the k-th
\* entry has the name of the k-th field as key and as qualifier.
C3_EntriesMirrorSchema ==
    CatalogReturned =>
        /\ Len(ret.value.columns) = Len(args.schema)
        /\ \A k \in 1..Len(args.schema) :
              /\ ret.value.columns[k].key = args.schema[k].name
              /\ ret.value.columns[k].col = args.schema[k].name

C3_Witness ==
    /\ CatalogReturned
    /\ Len(args.schema) = 3
    /\ args.schema[1].name # args.schema[2].name
    /\ args.schema[2].name = args.schema[3].name
    /\ ret.value.columns[1].key # ret.value.columns[2].key

\* Some field not named as the row key has no family in the mapping.
UnassignedField ==
    \E k \in 1..Len(args.schema) :
        /\ args.schema[k].name # args.rowkeyname
        /\ args.schema[k].name \notin DOMAIN args.cf

\* C4: the call raises the lookup error and returns nothing whenever some
\* field not named as the row key has no entry in the mapping; it returns a
\* descriptor otherwise, whether or not the row-key name is in the mapping.
C4_LookupErrorIffUnassigned ==
    (pc = "done" /\ args.fn = "construct_hbase_catalog_from_flatten_schema") =>
        /\ UnassignedField => (ret.status = "KeyError" /\ ret.value = None)
        /\ ~UnassignedField => ret.status = "ok"

C4_Witness ==
    /\ pc = "done"
    /\ args.fn = "construct_hbase_catalog_from_flatten_schema"
    /\ ret.status = "KeyError"
    /\ UnassignedField
    /\ KeyPositions # {}

\* The row-key field is in the schema and the mapping has no entry for it.
C4_WitnessKeyNeedsNoFamily ==
    /\ CatalogReturned
    /\ KeyPositions # {}
    /\ args.rowkeyname \notin DOMAIN args.cf

\* C10: the type tag of every entry is "string" when the declared type of the
\* field is a nested structure and the declared type otherwise; a timestamp
\* field keeps the tag "timestamp".
C10_TypeTags ==
    CatalogReturned =>
        \A k \in 1..Len(args.schema) :
            ret.value.columns[k].type =
                IF args.schema[k].type.kind = "dict"
                THEN "string"
                ELSE args.schema[k].type.name

C10_Witness ==
    /\ CatalogReturned
    /\ \E j, k \in 1..Len(args.schema) :
          /\ args.schema[j].type = DictType("array")
          /\ ret.value.columns[j].type = "string"
          /\ args.schema[k].type = StrType("timestamp")
          /\ ret.value.columns[k].type = "timestamp"
          /\ args.schema[k].name = args.rowkeyname

(***************************************************************************)
(* Any one call of the module.                                             *)
(***************************************************************************)
Init == InitCatalog \/ InitRowKey \/ InitFamily \/ InitSchemaRow

Next == CallCatalog \/ CallRowKey \/ CallFamily \/ CallSchemaRow

Spec == Init /\ [][Next]_vars

====
